---- MODULE Spec2Model ----
(***************************************************************************)
(* A model of the szamlazz.js client: src/lib/Client.js (the Client class) *)
(* and its XML helpers (wrapWithElement, parseString, xml2obj).            *)
(*                                                                         *)
(* JavaScript strings are sequences of one-character strings, so that      *)
(* trim(), length, escaping, URL-decoding and base64-decoding are computed *)
(* and not assumed.  A parsed XML document (the result of xml2js) is a     *)
(* function from the addresses of its text leaves to their texts; an       *)
(* address is the sequence of property keys that leads from the parse      *)
(* result to the leaf: <<root, tag, "0", tag, "1", ...>>.                  *)
(***************************************************************************)
EXTENDS Integers, Sequences, FiniteSets, TLC

\* ------------------------------------------------------------------ bounds
\* longest string a caller passes as a credential or an identifier
MaxLen == 2
\* longest URL-encoded error message header
MaxMsgLen == 3
\* longest base64 text of a <pdf> element
MaxB64Len == 2
\* most occurrences of one element under one parent
MaxOcc == 2
\* longest dotted path given to xml2obj, and the depth of its documents
MaxDepth == 3
\* calls in flight on one client
MaxCalls == 2

\* ------------------------------------------------------------- JS values
SeqsUpTo(S, n) == UNION {[1..k -> S] : k \in 0..n}

\* a response body: malformed text, the empty text, a well-formed XML text
\* (given by its parse), or the bytes of a binary download
Body(kind, doc, bytes) == [kind |-> kind, doc |-> doc, bytes |-> bytes]
NoBody == Body("none", <<>>, <<>>)
MalformedBody == Body("malformed", <<>>, <<>>)
EmptyBody == Body("empty", <<>>, <<>>)
XmlBody(doc) == Body("xml", doc, <<>>)
BytesBody(bytes) == Body("bytes", <<>>, bytes)

\* a JavaScript value: its typeof tag t, its characters s (a string, or the
\* address of an object inside the response document), its number n and its
\* content b (a Buffer or ArrayBuffer, as the body it holds)
JSVal(t, s, n, b) == [t |-> t, s |-> s, n |-> n, b |-> b]
Undefined == JSVal("undefined", <<>>, 0, NoBody)
Null == JSVal("null", <<>>, 0, NoBody)
Str(s) == JSVal("string", s, 0, NoBody)
Num(n) == JSVal("number", <<>>, n, NoBody)
Bool(v) == JSVal("boolean", <<>>, IF v THEN 1 ELSE 0, NoBody)
Buffer(body) == JSVal("buffer", <<>>, 0, body)
ObjectAt(addr) == JSVal("object", addr, 0, NoBody)

TrueS == <<"t", "r", "u", "e">>
FalseS == <<"f", "a", "l", "s", "e">>
UndefinedS == <<"u", "n", "d", "e", "f", "i", "n", "e", "d">>

\* JavaScript truthiness (the operand of if, !, || and &&)
Truthy(v) ==
  CASE v.t = "undefined" -> FALSE
    [] v.t = "null" -> FALSE
    [] v.t = "string" -> v.s # <<>>
    [] v.t = "number" -> v.n # 0
    [] v.t = "boolean" -> v.n = 1
    [] OTHER -> TRUE

\* a || b
Or(a, b) == IF Truthy(a) THEN a ELSE b

Digit == <<"0", "1", "2", "3", "4", "5", "6", "7", "8", "9">>

RECURSIVE Digits(_)
Digits(n) == IF n < 10 THEN <<Digit[n + 1]>> ELSE Digits(n \div 10) \o <<Digit[(n % 10) + 1]>>

\* Number.prototype.toString of an integer
NumToString(n) == IF n < 0 THEN <<"-">> \o Digits(0 - n) ELSE Digits(n)

\* String(v)
ToStr(v) ==
  CASE v.t = "string" -> v.s
    [] v.t = "boolean" -> IF v.n = 1 THEN TrueS ELSE FalseS
    [] v.t = "number" -> NumToString(v.n)
    [] v.t = "null" -> <<"n", "u", "l", "l">>
    [] OTHER -> UndefinedS

IsSpace(c) == c = " "

RECURSIVE TrimStart(_)
TrimStart(s) == IF s # <<>> /\ IsSpace(Head(s)) THEN TrimStart(Tail(s)) ELSE s

RECURSIVE TrimEnd(_)
TrimEnd(s) == IF s # <<>> /\ IsSpace(s[Len(s)]) THEN TrimEnd(SubSeq(s, 1, Len(s) - 1)) ELSE s

\* String.prototype.trim
Trim(s) == TrimEnd(TrimStart(s))

\* typeof v === 'string' && v.trim().length > 1
IsValidString(v) == v.t = "string" /\ Len(Trim(v.s)) > 1

\* what the specification asks of such a field: a string that is non-empty
\* after trimming
NonEmptyTrimmed(v) == v.t = "string" /\ Len(Trim(v.s)) >= 1

\* ----------------------------------------------------------- constructor
Chars == {" ", "a"}
StringInputs == {Str(s) : s \in SeqsUpTo(Chars, MaxLen)}
FieldInputs == StringInputs \cup {Undefined, Num(12)}

\* defaultOptions
defaultOptions ==
  [eInvoice |-> Bool(FALSE), requestInvoiceDownload |-> Bool(FALSE),
   downloadedInvoiceCount |-> Num(1), responseVersion |-> Num(1), timeout |-> Num(0)]

\* merge({}, defaultOptions, options): the caller's keys win
MergeOptions(options) ==
  [k \in DOMAIN defaultOptions \cup DOMAIN options |->
     IF k \in DOMAIN options THEN options[k] ELSE defaultOptions[k]]

NoCredentials == [authToken |-> Undefined, user |-> Undefined, password |-> Undefined]
NoClient == [constructed |-> FALSE, useToken |-> FALSE, options |-> MergeOptions(NoCredentials)]

\* new Client(options): the client, or the AssertionError it throws
Constructor(options) ==
  LET o == MergeOptions(options)
      useToken == IsValidString(o.authToken)
  IN IF ~useToken /\ ~(IsValidString(o.user) /\ IsValidString(o.password))
       THEN [ok |-> FALSE, error |-> "AssertionError", client |-> NoClient]
       ELSE [ok |-> TRUE, error |-> "none",
             client |-> [constructed |-> TRUE, useToken |-> useToken, options |-> o]]

\* ------------------------------------------------------------- documents
\* the array index keys of xml2js's element sequences
IndexKey == <<"0", "1", "2", "3">>

IsPrefix(p, a) == Len(p) <= Len(a) /\ SubSeq(a, 1, Len(p)) = p

Front(a) == SubSeq(a, 1, Len(a) - 1)

\* typeof of the property chain p of the parse result doc
TypeAt(doc, p) ==
  IF p \in DOMAIN doc THEN "string"
  ELSE IF \E a \in DOMAIN doc : IsPrefix(p, a) THEN "object"
  ELSE "undefined"

\* res[p1][p2]...: a text leaf, an object or array of the document, the first
\* character of a text leaf (a string's own property "0"), or undefined
ValueAt(doc, p) ==
  CASE TypeAt(doc, p) = "string" -> Str(doc[p])
    [] TypeAt(doc, p) = "object" -> ObjectAt(p)
    [] OTHER ->
         IF /\ p # <<>>
            /\ p[Len(p)] = "0"
            /\ Front(p) \in DOMAIN doc
            /\ doc[Front(p)] # <<>>
           THEN Str(<<doc[Front(p)][1]>>)
           ELSE Undefined

\* p.hasOwnProperty(key), for the value at p
HasOwnProperty(doc, p, key) == ValueAt(doc, p \o <<key>>).t # "undefined"

\* parseString(xml): xml2js resolves null for an empty text and rejects a
\* text that is not well-formed
parseString(body) ==
  CASE body.kind = "xml" -> [ok |-> TRUE, isNull |-> FALSE, doc |-> body.doc]
    [] body.kind = "empty" -> [ok |-> TRUE, isNull |-> TRUE, doc |-> <<>>]
    [] OTHER -> [ok |-> FALSE, isNull |-> FALSE, doc |-> <<>>]

\* the for loop of xml2obj from segment i on: p = p[path[i]] while p has it
RECURSIVE WalkPath(_, _, _, _)
WalkPath(doc, path, i, p) ==
  IF i > Len(path) THEN [found |-> TRUE, p |-> p]
  ELSE IF HasOwnProperty(doc, p, path[i])
    THEN WalkPath(doc, path, i + 1, p \o <<path[i]>>)
    ELSE [found |-> FALSE, p |-> p]

\* Object.keys(objList).forEach from entry i on; objList is the sequence of
\* its [path, key] entries in insertion order
RECURSIVE ProjectFrom(_, _, _, _)
ProjectFrom(doc, objList, i, hash) ==
  IF i > Len(objList) THEN hash
  ELSE LET w == WalkPath(doc, objList[i].path, 1, <<>>)
           k == objList[i].key
       IN ProjectFrom(doc, objList, i + 1,
            IF w.found
              THEN [x \in DOMAIN hash \cup {k} |->
                      IF x = k THEN ValueAt(doc, w.p \o <<"0">>) ELSE hash[x]]
              ELSE hash)

\* xml2obj(xml, objList): the hash, a ParseError, or the TypeError of
\* null.hasOwnProperty when the text is empty
xml2obj(body, objList) ==
  LET res == parseString(body)
  IN CASE ~res.ok -> [ok |-> FALSE, error |-> "ParseError", hash |-> <<>>]
       [] res.ok /\ res.isNull /\ objList # <<>> ->
            [ok |-> FALSE, error |-> "TypeError", hash |-> <<>>]
       [] OTHER -> [ok |-> TRUE, error |-> "none",
                    hash |-> ProjectFrom(res.doc, objList, 1, <<>>)]

\* ------------------------------------------------------------ XML builder
XmlEntity(c) ==
  CASE c = "<" -> <<"&", "l", "t", ";">>
    [] c = ">" -> <<"&", "g", "t", ";">>
    [] c = "&" -> <<"&", "a", "m", "p", ";">>
    [] OTHER -> <<c>>

RECURSIVE escapeXMLString(_)
escapeXMLString(s) ==
  IF s = <<>> THEN <<>> ELSE XmlEntity(Head(s)) \o escapeXMLString(Tail(s))

\* a Date value; wrapWithElement renders it as its YYYY-MM-DD text
Today == JSVal("date", <<"2", "0", "2", "6", "-", "0", "1", "-", "0", "9">>, 0, NoBody)

\* wrapWithElement(name, data) for a scalar data, as the elements it emits
\* under parent: none for undefined and null, else one with the escaped text
wrapWithElement(parent, name, data) ==
  IF data.t \in {"undefined", "null"} THEN <<>>
  ELSE <<[parent |-> parent, name |-> name,
          text |-> IF data.t = "date" THEN data.s ELSE escapeXMLString(ToStr(data))]>>

\* wrapWithElement(parent, [[name, data], ...]) from pair i on
RECURSIVE wrapPairs(_, _, _)
wrapPairs(parent, pairs, i) ==
  IF i > Len(pairs) THEN <<>>
  ELSE wrapWithElement(parent, pairs[i][1], pairs[i][2]) \o wrapPairs(parent, pairs, i + 1)

\* the text of the first element called name under parent, as a string
\* value; undefined when the request has none
RequestField(request, parent, name) ==
  LET hits == {i \in 1..Len(request) : request[i].parent = parent /\ request[i].name = name}
  IN IF hits = {} THEN Undefined
     ELSE Str(request[CHOOSE i \in hits : \A j \in hits : i <= j].text)

\* --------------------------------------------------------------- decoding
\* the value of a base64 digit
B64Chars == {"Q", "/", "="}
B64Val(c) == CASE c = "Q" -> 16 [] c = "/" -> 63 [] OTHER -> 0

RECURSIVE UntilPad(_)
UntilPad(s) == IF s = <<>> \/ Head(s) = "=" THEN <<>> ELSE <<Head(s)>> \o UntilPad(Tail(s))

\* the bytes of a run of base64 digits: 4 digits give 3 bytes, a rest of 3
\* gives 2, a rest of 2 gives 1, a rest of 1 gives none
RECURSIVE B64Bytes(_)
B64Bytes(s) ==
  LET v(i) == B64Val(s[i])
      b1 == v(1) * 4 + v(2) \div 16
      b2 == (v(2) % 16) * 16 + v(3) \div 4
      b3 == (v(3) % 4) * 64 + v(4)
  IN CASE Len(s) < 2 -> <<>>
       [] Len(s) = 2 -> <<b1>>
       [] Len(s) = 3 -> <<b1, b2>>
       [] OTHER -> <<b1, b2, b3>> \o B64Bytes(SubSeq(s, 5, Len(s)))

\* Buffer.from(text, 'base64'): decoding stops at the first padding character
Base64Decode(s) == B64Bytes(UntilPad(s))

\* str.replace(/\+/g, ' ')
RECURSIVE PlusToSpace(_)
PlusToSpace(s) ==
  IF s = <<>> THEN <<>>
  ELSE <<IF Head(s) = "+" THEN " " ELSE Head(s)>> \o PlusToSpace(Tail(s))

MsgChars == {"+", "%", "2", "B"}
IsHex(c) == c \in {"2", "B"}
HexVal(c) == IF c = "B" THEN 11 ELSE 2
\* the ASCII characters the escapes %22 and %2B stand for
AsciiChar(byte) == IF byte = 43 THEN "+" ELSE "\""

\* decodeURIComponent(s): ok and the decoded text, or not ok (URIError) for
\* a % without two hex digits or an escape that is no UTF-8 lead byte
RECURSIVE decodeURIComponent(_)
decodeURIComponent(s) ==
  IF s = <<>> THEN [ok |-> TRUE, s |-> <<>>]
  ELSE IF Head(s) # "%"
    THEN LET rest == decodeURIComponent(Tail(s))
         IN [ok |-> rest.ok, s |-> <<Head(s)>> \o rest.s]
    ELSE IF Len(s) < 3 \/ ~IsHex(s[2]) \/ ~IsHex(s[3]) THEN [ok |-> FALSE, s |-> <<>>]
    ELSE LET byte == 16 * HexVal(s[2]) + HexVal(s[3])
             rest == decodeURIComponent(SubSeq(s, 4, Len(s)))
         IN IF byte >= 128 THEN [ok |-> FALSE, s |-> <<>>]
            ELSE [ok |-> rest.ok, s |-> <<AsciiChar(byte)>> \o rest.s]


\* ------------------------------------------------------------- transport
\* an HTTP response as axios gives it: status, the headers the client
\* reads, and the body
Response(status, headers, data) == [status |-> status, headers |-> headers, data |-> data]
Headers(code, error, szamlaszam) ==
  [szlahu_error_code |-> code, szlahu_error |-> error, szlahu_szamlaszam |-> szamlaszam,
   szlahu_nettovegosszeg |-> Str(<<"1", "0">>), szlahu_bruttovegosszeg |-> Str(<<"1", "2">>),
   szlahu_vevoifiokurl |-> Undefined]
NoResponse == Response(0, Headers(Undefined, Undefined, Undefined), NoBody)

NoError == [message |-> Undefined, code |-> Undefined]

\* the items of the element sequence at address arr, in order
RECURSIVE ArrayItems(_, _, _)
ArrayItems(doc, arr, i) ==
  IF i > Len(IndexKey) \/ TypeAt(doc, arr \o <<IndexKey[i]>>) = "undefined" THEN <<>>
  ELSE <<ValueAt(doc, arr \o <<IndexKey[i]>>)>> \o ArrayItems(doc, arr, i + 1)

ObjectS == <<"[", "o", "b", "j", "e", "c", "t", " ", "O", "b", "j", "e", "c", "t", "]">>

RECURSIVE JoinItems(_)
JoinItems(items) ==
  IF items = <<>> THEN <<>>
  ELSE LET head == IF Head(items).t = "object" THEN ObjectS ELSE ToStr(Head(items))
       IN IF Len(items) = 1 THEN head ELSE head \o <<",">> \o JoinItems(Tail(items))

\* new Error(v).message: nothing for undefined, else String(v); an array
\* stringifies to its items joined by commas
ErrorMessage(doc, v) ==
  CASE v.t = "undefined" -> Str(<<>>)
    [] v.t = "object" -> Str(JoinItems(ArrayItems(doc, v.s, 1)))
    [] OTHER -> Str(ToStr(v))

Failure(kind, parsed, error) == [ok |-> FALSE, kind |-> kind, parsed |-> parsed, error |-> error]

\* _sendRequest if it did not look at the error headers
sendRequestIgnoringErrorHeader(fileFieldName, isBinaryDownload, httpResponse) ==
  LET h == httpResponse.headers
      res == parseString(httpResponse.data)
      xv == ValueAt(res.doc, <<"xmlszamlavalasz">>)
      hibakod == ValueAt(res.doc, <<"xmlszamlavalasz", "hibakod">>)
  IN CASE httpResponse.status # 200 -> Failure("TransportError", FALSE, NoError)
       [] httpResponse.status = 200
          /\ (isBinaryDownload \/ fileFieldName = "action-szamla_agent_kifiz") ->
            [ok |-> TRUE, kind |-> "none", parsed |-> FALSE, error |-> NoError]
       [] OTHER ->
            IF ~res.ok THEN Failure("ParseError", TRUE, NoError)
            ELSE IF res.isNull THEN Failure("TypeError", TRUE, NoError)
            ELSE IF Truthy(xv) /\ Truthy(hibakod)
              THEN Failure("ServiceError", TRUE,
                     [message |-> ErrorMessage(res.doc,
                                    ValueAt(res.doc, <<"xmlszamlavalasz", "hibauzenet">>)),
                      code |-> ValueAt(res.doc, <<"xmlszamlavalasz", "hibakod", "0">>)])
            ELSE [ok |-> TRUE, kind |-> "none", parsed |-> TRUE, error |-> NoError]
\* _sendRequest if it parsed the answer of registerCreditEntry like any other
sendRequestParsingCreditEntry(fileFieldName, isBinaryDownload, httpResponse) ==
  LET h == httpResponse.headers
      res == parseString(httpResponse.data)
      xv == ValueAt(res.doc, <<"xmlszamlavalasz">>)
      hibakod == ValueAt(res.doc, <<"xmlszamlavalasz", "hibakod">>)
  IN CASE httpResponse.status # 200 -> Failure("TransportError", FALSE, NoError)
       [] httpResponse.status = 200 /\ Truthy(h.szlahu_error_code) ->
            IF h.szlahu_error.t # "string" THEN Failure("TypeError", FALSE, NoError)
            ELSE LET d == decodeURIComponent(PlusToSpace(h.szlahu_error.s))
                 IN IF ~d.ok THEN Failure("URIError", FALSE, NoError)
                    ELSE Failure("ServiceError", FALSE,
                           [message |-> Str(d.s), code |-> h.szlahu_error_code])
       [] httpResponse.status = 200 /\ ~Truthy(h.szlahu_error_code) /\ isBinaryDownload ->
            [ok |-> TRUE, kind |-> "none", parsed |-> FALSE, error |-> NoError]
       [] OTHER ->
            IF ~res.ok THEN Failure("ParseError", TRUE, NoError)
            ELSE IF res.isNull THEN Failure("TypeError", TRUE, NoError)
            ELSE IF Truthy(xv) /\ Truthy(hibakod)
              THEN Failure("ServiceError", TRUE,
                     [message |-> ErrorMessage(res.doc,
                                    ValueAt(res.doc, <<"xmlszamlavalasz", "hibauzenet">>)),
                      code |-> ValueAt(res.doc, <<"xmlszamlavalasz", "hibakod", "0">>)])
            ELSE [ok |-> TRUE, kind |-> "none", parsed |-> TRUE, error |-> NoError]
\* _sendRequest from the point where the POST has settled with httpResponse:
\* ok, or the kind of error thrown and its message and code; parsed tells
\* whether the body was given to parseString.  axios rejects a status outside
\* 2xx itself, so that every status but 200 fails the call.
sendRequest(fileFieldName, isBinaryDownload, httpResponse) ==
  LET h == httpResponse.headers
      res == parseString(httpResponse.data)
      xv == ValueAt(res.doc, <<"xmlszamlavalasz">>)
      hibakod == ValueAt(res.doc, <<"xmlszamlavalasz", "hibakod">>)
  IN CASE httpResponse.status # 200 -> Failure("TransportError", FALSE, NoError)
       [] httpResponse.status = 200 /\ Truthy(h.szlahu_error_code) ->
            IF h.szlahu_error.t # "string" THEN Failure("TypeError", FALSE, NoError)
            ELSE LET d == decodeURIComponent(PlusToSpace(h.szlahu_error.s))
                 IN IF ~d.ok THEN Failure("URIError", FALSE, NoError)
                    ELSE Failure("ServiceError", FALSE,
                           [message |-> Str(d.s), code |-> h.szlahu_error_code])
       [] httpResponse.status = 200 /\ ~Truthy(h.szlahu_error_code)
          /\ (isBinaryDownload \/ fileFieldName = "action-szamla_agent_kifiz") ->
            [ok |-> TRUE, kind |-> "none", parsed |-> FALSE, error |-> NoError]
       [] OTHER ->
            IF ~res.ok THEN Failure("ParseError", TRUE, NoError)
            ELSE IF res.isNull THEN Failure("TypeError", TRUE, NoError)
            ELSE IF Truthy(xv) /\ Truthy(hibakod)
              THEN Failure("ServiceError", TRUE,
                     [message |-> ErrorMessage(res.doc,
                                    ValueAt(res.doc, <<"xmlszamlavalasz", "hibauzenet">>)),
                      code |-> ValueAt(res.doc, <<"xmlszamlavalasz", "hibakod", "0">>)])
            ELSE [ok |-> TRUE, kind |-> "none", parsed |-> TRUE, error |-> NoError]

\* _getAuthFields()
getAuthFields(c) ==
  IF c.useToken THEN <<<<"szamlaagentkulcs", c.options.authToken>>>>
  ELSE <<<<"felhasznalo", c.options.user>>, <<"jelszo", c.options.password>>>>


\* ----------------------------------------------------------------- state
\* ctor:   a construction: its options, whether it ran, and what it gave
\* proj:   an application of xml2obj: its arguments and its result
\* client: the Client the calls run on
\* calls:  the invocations of the client's async methods, by call id
VARIABLES ctor, proj, client, calls

vars == <<ctor, proj, client, calls>>

NoEntries == [isArray |-> FALSE, items |-> <<>>]

\* the arguments of a call; a method reads the ones it has
NoInput ==
  [invoiceId |-> Undefined, orderNumber |-> Undefined, pdf |-> Undefined,
   eInvoice |-> Undefined, requestInvoiceDownload |-> Undefined,
   taxPayerId |-> Undefined, taxNumber |-> Undefined, additive |-> Undefined,
   creditEntries |-> NoEntries]

\* a call: where it is (idle, awaiting the POST, done), the request it
\* built, how many POSTs it made, whether _sendRequest parsed the body,
\* the download option as read when the response is decoded, and how it ended
IdleCall ==
  [pc |-> "idle", op |-> "none", input |-> NoInput, fileFieldName |-> "none",
   request |-> <<>>, isBinaryDownload |-> FALSE, sends |-> 0, parsed |-> FALSE,
   download |-> FALSE, response |-> NoResponse, outcome |-> "none",
   error |-> NoError, result |-> <<>>]

Begin(call, op, input) == [call EXCEPT !.op = op, !.input = input]

\* a failed assert(): the call rejects before it awaits anything
Throw(call, kind, error) == [call EXCEPT !.pc = "done", !.outcome = kind, !.error = error]

Return(call, result) == [call EXCEPT !.pc = "done", !.outcome = "success", !.result = result]

\* _sendRequest up to its await: the multipart POST of the document
Post(call, fileFieldName, request, isBinaryDownload) ==
  [call EXCEPT !.pc = "awaiting", !.fileFieldName = fileFieldName, !.request = request,
               !.isBinaryDownload = isBinaryDownload, !.sends = @ + 1]

\* the call with the response it got and what _sendRequest made of it
Received(cl, call, httpResponse) ==
  [call EXCEPT !.response = httpResponse,
               !.parsed = sendRequest(call.fileFieldName, call.isBinaryDownload, httpResponse).parsed,
               !.download = Truthy(cl.options.requestInvoiceDownload)]

\* the header-encoded summary fields of a result
HeaderFields(httpResponse, keys) ==
  LET h == httpResponse.headers
  IN [k \in keys |->
        CASE k = "invoiceId" -> h.szlahu_szamlaszam
          [] k = "netTotal" -> h.szlahu_nettovegosszeg
          [] k = "grossTotal" -> h.szlahu_bruttovegosszeg
          [] OTHER -> h.szlahu_vevoifiokurl]

With(result, key, value) ==
  [k \in DOMAIN result \cup {key} |-> IF k = key THEN value ELSE result[k]]

\* ------------------------------------------------------- getInvoiceData
\* getInvoiceData(options) up to its await
getInvoiceDataCall(cl, call, options) ==
  LET hasInvoiceId == IsValidString(options.invoiceId)
      hasOrderNumber == IsValidString(options.orderNumber)
      xml == wrapPairs("xmlszamlaxml",
               getAuthFields(cl) \o <<<<"szamlaszam", options.invoiceId>>,
                                     <<"rendelesSzam", options.orderNumber>>,
                                     <<"pdf", options.pdf>>>>, 1)
  IN IF ~(hasInvoiceId \/ hasOrderNumber)
       THEN Throw(Begin(call, "getInvoiceData", options), "ValidationError", NoError)
       ELSE Post(Begin(call, "getInvoiceData", options), "action-szamla_agent_xml", xml, FALSE)

\* getInvoiceData from its await on
getInvoiceDataReturn(cl, call, httpResponse) ==
  LET r == sendRequest(call.fileFieldName, call.isBinaryDownload, httpResponse)
      got == Received(cl, call, httpResponse)
      parsedBody == parseString(httpResponse.data)
  IN IF ~r.ok THEN Throw(got, r.kind, r.error)
     ELSE Return(got, [k \in {"szamla"} |-> ValueAt(parsedBody.doc, <<"szamla">>)])

\* ------------------------------------------------------- reverseInvoice
\* reverseInvoice if it did not assert that requestInvoiceDownload is given
reverseInvoiceCallUnchecked(cl, call, options) ==
  LET xml == wrapPairs("beallitasok",
               getAuthFields(cl) \o
                 <<<<"eszamla", Str(ToStr(options.eInvoice))>>,
                   <<"szamlaLetoltes", Str(ToStr(options.requestInvoiceDownload))>>>>, 1)
             \o wrapPairs("fejlec",
                  <<<<"szamlaszam", options.invoiceId>>, <<"keltDatum", Today>>>>, 1)
  IN IF \/ ~IsValidString(options.invoiceId)
        \/ options.eInvoice.t = "undefined"
       THEN Throw(Begin(call, "reverseInvoice", options), "ValidationError", NoError)
       ELSE Post(Begin(call, "reverseInvoice", options), "action-szamla_agent_st", xml, TRUE)
\* reverseInvoice(options) up to its await
reverseInvoiceCall(cl, call, options) ==
  LET xml == wrapPairs("beallitasok",
               getAuthFields(cl) \o
                 <<<<"eszamla", Str(ToStr(options.eInvoice))>>,
                   <<"szamlaLetoltes", Str(ToStr(options.requestInvoiceDownload))>>>>, 1)
             \o wrapPairs("fejlec",
                  <<<<"szamlaszam", options.invoiceId>>, <<"keltDatum", Today>>>>, 1)
  IN IF \/ ~IsValidString(options.invoiceId)
        \/ options.eInvoice.t = "undefined"
        \/ options.requestInvoiceDownload.t = "undefined"
       THEN Throw(Begin(call, "reverseInvoice", options), "ValidationError", NoError)
       ELSE Post(Begin(call, "reverseInvoice", options), "action-szamla_agent_st", xml, TRUE)

reverseInvoiceReturn(cl, call, httpResponse) ==
  LET r == sendRequest(call.fileFieldName, call.isBinaryDownload, httpResponse)
      got == Received(cl, call, httpResponse)
      data == HeaderFields(httpResponse, {"invoiceId", "netTotal", "grossTotal", "customerAccountUrl"})
  IN IF ~r.ok THEN Throw(got, r.kind, r.error)
     ELSE IF Truthy(call.input.requestInvoiceDownload)
       THEN Return(got, With(data, "pdf", Buffer(httpResponse.data)))
       ELSE Return(got, data)

\* --------------------------------------------------------- issueInvoice
\* the invoice renders itself: an opaque fragment of the document
InvoiceFragment == [parent |-> "xmlszamla", name |-> "szamla", text |-> <<>>]

issueInvoiceCall(cl, call) ==
  LET xml == wrapPairs("beallitasok",
               getAuthFields(cl) \o
                 <<<<"eszamla", cl.options.eInvoice>>,
                   <<"szamlaLetoltes", cl.options.requestInvoiceDownload>>,
                   <<"szamlaLetoltesPld", cl.options.downloadedInvoiceCount>>,
                   <<"valaszVerzio", cl.options.responseVersion>>>>, 1)
             \o <<InvoiceFragment>>
  IN Post(Begin(call, "issueInvoice", NoInput), "action-xmlagentxmlfile", xml,
          cl.options.responseVersion = Num(1))

\* Buffer.from(v || '', 'base64'): a missing text decoded as an empty one
BufferFromBase64OrEmpty(v) ==
  IF v.t = "string" THEN [ok |-> TRUE, buffer |-> Buffer(BytesBody(Base64Decode(v.s)))]
  ELSE IF v.t = "undefined" THEN [ok |-> TRUE, buffer |-> Buffer(BytesBody(<<>>))]
  ELSE [ok |-> FALSE, buffer |-> Undefined]

\* Buffer.from(v, 'base64'): a string decodes; undefined and a plain object
\* are a TypeError
BufferFromBase64(v) ==
  IF v.t = "string" THEN [ok |-> TRUE, buffer |-> Buffer(BytesBody(Base64Decode(v.s)))]
  ELSE [ok |-> FALSE, buffer |-> Undefined]

PdfPathSpec == <<[path |-> <<"xmlszamlavalasz", "pdf">>, key |-> "pdf"]>>

issueInvoiceReturn(cl, call, httpResponse) ==
  LET r == sendRequest(call.fileFieldName, call.isBinaryDownload, httpResponse)
      got == Received(cl, call, httpResponse)
      data == HeaderFields(httpResponse, {"invoiceId", "netTotal", "grossTotal", "customerAccountUrl"})
      parsed == xml2obj(httpResponse.data, PdfPathSpec)
      pdf == BufferFromBase64(IF "pdf" \in DOMAIN parsed.hash THEN parsed.hash.pdf ELSE Undefined)
  IN IF ~r.ok THEN Throw(got, r.kind, r.error)
     ELSE IF ~Truthy(cl.options.requestInvoiceDownload) THEN Return(got, data)
     ELSE IF cl.options.responseVersion = Num(1)
       THEN Return(got, With(data, "pdf", Buffer(httpResponse.data)))
     ELSE IF cl.options.responseVersion = Num(2)
       THEN IF ~parsed.ok THEN Throw(got, parsed.error, NoError)
            ELSE IF ~pdf.ok THEN Throw(got, "TypeError", NoError)
            ELSE Return(got, With(data, "pdf", pdf.buffer))
     ELSE Return(got, data)

\* setRequestInvoiceDownload(value)
setRequestInvoiceDownload(cl, value) ==
  [cl EXCEPT !.options = [@ EXCEPT !.requestInvoiceDownload = value]]


\* -------------------------------------------------------- queryTaxPayer
\* the qualified names the tax authority's schema uses, by local name
Qualified ==
  [taxpayerValidity |-> "ns2:taxpayerValidity", taxpayerData |-> "ns2:taxpayerData",
   taxpayerName |-> "ns2:taxpayerName", taxpayerShortName |-> "ns2:taxpayerShortName",
   taxNumberDetail |-> "ns2:taxNumberDetail", taxpayerId |-> "ns3:taxpayerId",
   vatCode |-> "ns3:vatCode", countyCode |-> "ns3:countyCode",
   taxpayerAddressList |-> "ns2:taxpayerAddressList",
   taxpayerAddressItem |-> "ns2:taxpayerAddressItem",
   taxpayerAddress |-> "ns2:taxpayerAddress", countryCode |-> "ns3:countryCode",
   postalCode |-> "ns3:postalCode", city |-> "ns3:city"]

\* a tag key without its namespace prefix
LocalName(key) ==
  IF \E n \in DOMAIN Qualified : Qualified[n] = key
    THEN CHOOSE n \in DOMAIN Qualified : Qualified[n] = key
    ELSE key

LocalAddress(a) == [i \in 1..Len(a) |-> LocalName(a[i])]

\* removeNamespaces(doc): every tag key of the document, at every depth,
\* without its prefix
removeNamespaces(doc) ==
  [a \in {LocalAddress(x) : x \in DOMAIN doc} |->
     doc[CHOOSE x \in DOMAIN doc : LocalAddress(x) = a]]

\* v || null
OrNull(v) == Or(v, Null)

\* _extractAddress(addressList), for the address al of addressList in doc;
\* the fields of the address object are the keys address.<field>
extractAddress(doc, al) ==
  LET item == al \o <<"taxpayerAddressItem", "0", "taxpayerAddress", "0">>
      field(name) == OrNull(ValueAt(doc, item \o <<name, "0">>))
  IN IF ~Truthy(ValueAt(doc, al)) \/ ~Truthy(ValueAt(doc, al \o <<"taxpayerAddressItem">>))
       THEN [k \in {"address"} |-> Null]
       ELSE [k \in {"address", "address.countryCode", "address.postalCode", "address.city",
                    "address.streetName", "address.publicPlaceCategory", "address.number"} |->
               CASE k = "address" -> ObjectAt(<<"address">>)
                 [] k = "address.countryCode" -> field("countryCode")
                 [] k = "address.postalCode" -> field("postalCode")
                 [] k = "address.city" -> field("city")
                 [] k = "address.streetName" -> field("streetName")
                 [] k = "address.publicPlaceCategory" -> field("publicPlaceCategory")
                 [] OTHER -> field("number")]

IsDigit(c) == \E i \in 1..Len(Digit) : Digit[i] = c

\* /^[0-9]{8}$/.test(s)
EightDigits(s) == Len(s) = 8 /\ \A i \in 1..Len(s) : IsDigit(s[i])

queryTaxPayerCall(cl, call, taxPayerId) ==
  LET input == [NoInput EXCEPT !.taxPayerId = taxPayerId]
      xml == wrapPairs("beallitasok", getAuthFields(cl), 1)
             \o wrapWithElement("xmltaxpayer", "torzsszam", taxPayerId)
  IN IF ~(taxPayerId.t = "number" /\ EightDigits(NumToString(taxPayerId.n)))
       THEN Throw(Begin(call, "queryTaxPayer", input), "ValidationError", NoError)
       ELSE Post(Begin(call, "queryTaxPayer", input), "action-szamla_agent_taxpayer", xml, FALSE)

\* the decoding of queryTaxPayer if an invalid taxpayer did not return early
queryTaxPayerDecodeNoEarlyReturn(body) ==
  LET doc == removeNamespaces(parseString(body).doc)
      root == <<"QueryTaxpayerResponse">>
      taxpayerData == root \o <<"taxpayerData", "0">>
      detail == taxpayerData \o <<"taxNumberDetail", "0">>
      first(a) == OrNull(ValueAt(doc, a \o <<"0">>))
  IN IF ValueAt(doc, root).t = "undefined" THEN [ok |-> FALSE, result |-> <<>>]
     ELSE [ok |-> TRUE,
           result |->
             [k \in {"taxpayerValidity", "taxpayerId", "vatCode", "countyCode",
                     "taxpayerName", "taxpayerShortName"} |->
                CASE k = "taxpayerValidity" ->
                       Bool(ValueAt(doc, root \o <<"taxpayerValidity", "0">>) = Str(TrueS))
                  [] k = "taxpayerId" -> first(detail \o <<"taxpayerId">>)
                  [] k = "vatCode" -> first(detail \o <<"vatCode">>)
                  [] k = "countyCode" -> first(detail \o <<"countyCode">>)
                  [] k = "taxpayerName" -> first(taxpayerData \o <<"taxpayerName">>)
                  [] OTHER -> first(taxpayerData \o <<"taxpayerShortName">>)]
             @@ extractAddress(doc, taxpayerData \o <<"taxpayerAddressList", "0">>)]
\* the decoding of queryTaxPayer, lines 142-164: the result, or the
\* TypeError of reading taxpayerValidity of undefined
queryTaxPayerDecode(body) ==
  LET doc == removeNamespaces(parseString(body).doc)
      root == <<"QueryTaxpayerResponse">>
      taxpayerValidity == ValueAt(doc, root \o <<"taxpayerValidity", "0">>) = Str(TrueS)
      taxpayerData == root \o <<"taxpayerData", "0">>
      detail == taxpayerData \o <<"taxNumberDetail", "0">>
      first(a) == OrNull(ValueAt(doc, a \o <<"0">>))
  IN IF ValueAt(doc, root).t = "undefined" THEN [ok |-> FALSE, result |-> <<>>]
     ELSE IF ~taxpayerValidity
       THEN [ok |-> TRUE, result |-> [k \in {"taxpayerValidity"} |-> Bool(FALSE)]]
     ELSE [ok |-> TRUE,
           result |->
             [k \in {"taxpayerValidity", "taxpayerId", "vatCode", "countyCode",
                     "taxpayerName", "taxpayerShortName"} |->
                CASE k = "taxpayerValidity" -> Bool(taxpayerValidity)
                  [] k = "taxpayerId" -> first(detail \o <<"taxpayerId">>)
                  [] k = "vatCode" -> first(detail \o <<"vatCode">>)
                  [] k = "countyCode" -> first(detail \o <<"countyCode">>)
                  [] k = "taxpayerName" -> first(taxpayerData \o <<"taxpayerName">>)
                  [] OTHER -> first(taxpayerData \o <<"taxpayerShortName">>)]
             @@ extractAddress(doc, taxpayerData \o <<"taxpayerAddressList", "0">>)]

queryTaxPayerReturn(cl, call, httpResponse) ==
  LET r == sendRequest(call.fileFieldName, call.isBinaryDownload, httpResponse)
      got == Received(cl, call, httpResponse)
      decoded == queryTaxPayerDecode(httpResponse.data)
  IN IF ~r.ok THEN Throw(got, r.kind, r.error)
     ELSE IF ~decoded.ok THEN Throw(got, "TypeError", NoError)
     ELSE Return(got, decoded.result)

\* -------------------------------------------------- registerCreditEntry
\* each credit entry renders itself: an opaque fragment per entry, in order
CreditFragments(items) ==
  [i \in 1..Len(items) |-> [parent |-> "xmlszamlakifiz", name |-> "kifizetes", text |-> <<>>]]

registerCreditEntryCall(cl, call, options) ==
  LET creditEntries == options.creditEntries
      xml == wrapPairs("beallitasok",
               getAuthFields(cl) \o
                 <<<<"szamlaszam", options.invoiceId>>,
                   <<"adoszam", Or(options.taxNumber, Str(<<>>))>>,
                   <<"additiv", Str(ToStr(Or(options.additive, Bool(TRUE))))>>>>, 1)
             \o CreditFragments(creditEntries.items)
  IN IF \/ ~IsValidString(options.invoiceId)
        \/ ~(creditEntries.isArray /\ Len(creditEntries.items) > 0)
        \/ ~(\A i \in 1..Len(creditEntries.items) : creditEntries.items[i] = "CreditEntry")
       THEN Throw(Begin(call, "registerCreditEntry", options), "ValidationError", NoError)
       ELSE Post(Begin(call, "registerCreditEntry", options), "action-szamla_agent_kifiz", xml, FALSE)

registerCreditEntryReturn(cl, call, httpResponse) ==
  LET r == sendRequest(call.fileFieldName, call.isBinaryDownload, httpResponse)
      got == Received(cl, call, httpResponse)
  IN IF ~r.ok THEN Throw(got, r.kind, r.error)
     ELSE Return(got, HeaderFields(httpResponse, {"invoiceId", "netTotal", "grossTotal"}))


\* ---------------------------------------------------------------- inputs
\* the document with the given <<address, text>> leaves
Doc(leaves) == [a \in {l[1] : l \in leaves} |-> (CHOOSE l \in leaves : l[1] = a)[2]]

Code57 == <<"5", "7">>
ErrorText == <<"b", "a", "d">>

ErrorDocs ==
  {Doc({<<<<"xmlszamlavalasz", "hibakod", "0">>, Code57>>,
        <<<<"xmlszamlavalasz", "hibauzenet", "0">>, ErrorText>>}),
   Doc({<<<<"xmlszamlavalasz", "hibakod", "0">>, Code57>>}),
   Doc({<<<<"xmlszamlavalasz", "hibakod", "0">>, Code57>>,
        <<<<"xmlszamlavalasz", "hibakod", "1">>, <<"9">>>>,
        <<<<"xmlszamlavalasz", "hibauzenet", "0">>, ErrorText>>,
        <<<<"xmlszamlavalasz", "hibauzenet", "1">>, <<"x">>>>})}

PlainDocs ==
  {Doc({<<<<"xmlszamlavalasz", "sikeres", "0">>, TrueS>>}),
   Doc({<<<<"xmlszamlavalasz">>, <<>>>>}),
   Doc({<<<<"szamla", "alap", "0", "szamlaszam", "0">>, <<"E", "1">>>>})}

CommonBodies == {MalformedBody, EmptyBody} \cup {XmlBody(d) : d \in ErrorDocs \cup PlainDocs}

\* version-2 answers of issueInvoice: <pdf> elements with base64 texts, the
\* first of any text, with and without an error node beside them
PdfTexts == SeqsUpTo(B64Chars, MaxB64Len)
PdfLists ==
  {<<>>} \cup {<<t>> \o rest : t \in PdfTexts, rest \in SeqsUpTo({<<"/", "/">>}, MaxOcc - 1)}
PdfLeaves(list) == {<<<<"xmlszamlavalasz", "pdf", IndexKey[i]>>, list[i]>> : i \in 1..Len(list)}
PdfDocs ==
  {Doc(PdfLeaves(list) \cup {<<<<"xmlszamlavalasz", "sikeres", "0">>, TrueS>>}) : list \in PdfLists}
  \cup {Doc(PdfLeaves(<<<<"Q", "/">>>>) \cup {<<<<"xmlszamlavalasz", "hibakod", "0">>, Code57>>}),
        Doc({<<<<"xmlszamlavalasz", "pdf", "0", "data", "0">>, <<"Q", "/">>>>}),
        Doc({<<<<"valasz", "pdf", "0">>, <<"Q", "/">>>>})}

\* answers of queryTaxPayer: with or without namespace prefixes, the
\* validity leaves, and how much of the taxpayer data is there
TaxTag(prefixed, name) ==
  IF prefixed /\ name \in DOMAIN Qualified THEN Qualified[name] ELSE name
TaxAddress(prefixed, names) ==
  <<"QueryTaxpayerResponse">> \o
    [i \in 1..Len(names) |-> IF i % 2 = 1 THEN TaxTag(prefixed, names[i]) ELSE names[i]]
ValidityLists == {<<>>, <<TrueS>>, <<FalseS>>, <<FalseS, TrueS>>, <<TrueS, FalseS>>, <<<<"T", "R", "U", "E">>>>}
TaxParts ==
  [name |-> <<<<"taxpayerData", "0", "taxpayerName", "0">>, <<"N">>>>,
   short |-> <<<<"taxpayerData", "0", "taxpayerShortName", "0">>, <<"S">>>>,
   id |-> <<<<"taxpayerData", "0", "taxNumberDetail", "0", "taxpayerId", "0">>, <<"1", "2">>>>,
   vat |-> <<<<"taxpayerData", "0", "taxNumberDetail", "0", "vatCode", "0">>, <<"2">>>>,
   county |-> <<<<"taxpayerData", "0", "taxNumberDetail", "0", "countyCode", "0">>, <<"4", "1">>>>,
   noList |-> <<<<"taxpayerData", "0", "taxpayerAddressList", "0">>, <<>>>>,
   city |-> <<<<"taxpayerData", "0", "taxpayerAddressList", "0", "taxpayerAddressItem", "0",
                "taxpayerAddress", "0", "city", "0">>, <<"B", "p">>>>,
   postal |-> <<<<"taxpayerData", "0", "taxpayerAddressList", "0", "taxpayerAddressItem", "0",
                  "taxpayerAddress", "0", "postalCode", "0">>, <<"1", "0">>>>,
   city2 |-> <<<<"taxpayerData", "0", "taxpayerAddressList", "0", "taxpayerAddressItem", "1",
                 "taxpayerAddress", "0", "city", "0">>, <<"G", "y">>>>,
   noData |-> <<<<"taxpayerData", "0">>, <<>>>>]
TaxDataKinds ==
  {{}, {"noData"}, {"name", "short", "id", "vat", "county"},
   {"name", "short", "id", "vat", "county", "noList"},
   {"name", "short", "id", "vat", "county", "city", "postal"},
   {"name", "short", "id", "vat", "county", "city", "city2"},
   {"name", "id", "city"}, {"short", "vat", "county", "postal"}, {"city", "postal"}}
TaxDocs ==
  {Doc({<<TaxAddress(prefixed, <<"taxpayerValidity", IndexKey[i]>>), validity[i]>> :
          i \in 1..Len(validity)}
       \cup {<<TaxAddress(prefixed, TaxParts[part][1]), TaxParts[part][2]>> : part \in kind}
       \cup {<<TaxAddress(prefixed, <<"funcCode", "0">>), <<"O", "K">>>>}) :
     prefixed \in BOOLEAN, validity \in ValidityLists, kind \in TaxDataKinds}

Bodies(fileFieldName) ==
  CASE fileFieldName = "action-szamla_agent_xml" -> CommonBodies
    [] fileFieldName = "action-szamla_agent_st" ->
         {BytesBody(<<>>), BytesBody(<<37, 80>>), MalformedBody}
         \cup {XmlBody(d) : d \in ErrorDocs}
    [] fileFieldName = "action-xmlagentxmlfile" ->
         CommonBodies \cup {XmlBody(d) : d \in PdfDocs} \cup {BytesBody(<<37, 80>>)}
    [] fileFieldName = "action-szamla_agent_taxpayer" ->
         CommonBodies \cup {XmlBody(d) : d \in TaxDocs}
    [] OTHER -> {MalformedBody, EmptyBody} \cup {XmlBody(d) : d \in ErrorDocs}

\* the error message headers: none, or any text of plus signs, percent
\* signs and the hex digits 2 and B
ErrorHeaders == {Undefined} \cup {Str(m) : m \in SeqsUpTo(MsgChars, MaxMsgLen)}

\* what the POST of a call may settle with
Responses(fileFieldName) ==
  {Response(status, Headers(Undefined, Undefined, Undefined), MalformedBody) : status \in {204, 500}}
  \cup {Response(200, Headers(Str(Code57), m, Undefined),
                     XmlBody(Doc({<<<<"xmlszamlavalasz", "sikeres", "0">>, TrueS>>}))) :
          m \in ErrorHeaders}
  \cup {Response(200, Headers(Str(Code57), Str(<<"%", "2", "2">>), Str(<<"E", "1">>)), b) :
          b \in Bodies(fileFieldName)}
  \cup {Response(200, Headers(Undefined, Undefined, Str(<<"E", "1">>)), b) :
          b \in Bodies(fileFieldName)}

Credentials ==
  {[authToken |-> Str(<<"a", "a">>), user |-> Undefined, password |-> Undefined],
   [authToken |-> Undefined, user |-> Str(<<"a", "a">>), password |-> Str(<<"a", " ", "a">>)]}

\* the clients the calls run on: constructed, with either credential mode,
\* either response version, and the download option set or not
Clients ==
  {Constructor(o).client :
     o \in {c @@ [requestInvoiceDownload |-> Bool(d), responseVersion |-> Num(v)] :
              c \in Credentials, d \in BOOLEAN, v \in {1, 2}}}

\* the order numbers tried next to each invoice id: absent, too short, valid
OrderNumbers == {Undefined, Str(<<"a">>), Str(<<"a", "a">>)}

GetInvoiceDataInputs ==
  {[NoInput EXCEPT !.invoiceId = i, !.orderNumber = o, !.pdf = Bool(TRUE)] :
     i \in FieldInputs, o \in OrderNumbers}

ReverseInvoiceInputs ==
  {[NoInput EXCEPT !.invoiceId = i, !.eInvoice = e, !.requestInvoiceDownload = d] :
     i \in FieldInputs, e \in {Undefined, Bool(FALSE)}, d \in {Undefined, Bool(FALSE), Bool(TRUE)}}

TaxPayerIds ==
  {Undefined, Str(<<"1", "2", "3", "4", "5", "6", "7", "8">>), Num(0), Num(1234567),
   Num(10000000), Num(12345678), Num(100000000), Num(0 - 12345678)}

EntryLists ==
  {NoEntries} \cup
  {[isArray |-> TRUE, items |-> items] :
     items \in {<<>>, <<"CreditEntry">>, <<"CreditEntry", "Object">>, <<"CreditEntry", "CreditEntry">>}}

RegisterCreditEntryInputs ==
  {[NoInput EXCEPT !.invoiceId = i, !.taxNumber = t, !.additive = a, !.creditEntries = e] :
     i \in FieldInputs, t \in {Undefined, Str(<<"8">>)},
     a \in {Undefined, Bool(FALSE), Bool(TRUE)}, e \in EntryLists}

CallIds == 1..MaxCalls


\* --------------------------------------------------------------- actions
NoCtor == [options |-> NoCredentials, done |-> FALSE,
           result |-> [ok |-> FALSE, error |-> "none", client |-> NoClient]]
NoProj == [body |-> NoBody, objList |-> <<>>, done |-> FALSE,
           result |-> [ok |-> FALSE, error |-> "none", hash |-> <<>>]]

\* new Client(options)
Construct ==
  /\ ~ctor.done
  /\ ctor' = [ctor EXCEPT !.done = TRUE, !.result = Constructor(ctor.options)]
  /\ UNCHANGED <<proj, client, calls>>

\* xml2obj(xml, objList)
Project ==
  /\ ~proj.done
  /\ proj' = [proj EXCEPT !.done = TRUE, !.result = xml2obj(proj.body, proj.objList)]
  /\ UNCHANGED <<ctor, client, calls>>

Idle(c) == calls[c].pc = "idle"
Awaiting(c, op) == calls[c].pc = "awaiting" /\ calls[c].op = op

GetInvoiceData(c) ==
  /\ Idle(c)
  /\ \E options \in GetInvoiceDataInputs :
       calls' = [calls EXCEPT ![c] = getInvoiceDataCall(client, calls[c], options)]
  /\ UNCHANGED <<ctor, proj, client>>

GetInvoiceDataReturn(c) ==
  /\ Awaiting(c, "getInvoiceData")
  /\ \E httpResponse \in Responses(calls[c].fileFieldName) :
       calls' = [calls EXCEPT ![c] = getInvoiceDataReturn(client, calls[c], httpResponse)]
  /\ UNCHANGED <<ctor, proj, client>>

ReverseInvoice(c) ==
  /\ Idle(c)
  /\ \E options \in ReverseInvoiceInputs :
       calls' = [calls EXCEPT ![c] = reverseInvoiceCall(client, calls[c], options)]
  /\ UNCHANGED <<ctor, proj, client>>

ReverseInvoiceReturn(c) ==
  /\ Awaiting(c, "reverseInvoice")
  /\ \E httpResponse \in Responses(calls[c].fileFieldName) :
       calls' = [calls EXCEPT ![c] = reverseInvoiceReturn(client, calls[c], httpResponse)]
  /\ UNCHANGED <<ctor, proj, client>>

IssueInvoice(c) ==
  /\ Idle(c)
  /\ calls' = [calls EXCEPT ![c] = issueInvoiceCall(client, calls[c])]
  /\ UNCHANGED <<ctor, proj, client>>

IssueInvoiceReturn(c, responses) ==
  /\ Awaiting(c, "issueInvoice")
  /\ \E httpResponse \in responses :
       calls' = [calls EXCEPT ![c] = issueInvoiceReturn(client, calls[c], httpResponse)]
  /\ UNCHANGED <<ctor, proj, client>>

QueryTaxPayer(c) ==
  /\ Idle(c)
  /\ \E taxPayerId \in TaxPayerIds :
       calls' = [calls EXCEPT ![c] = queryTaxPayerCall(client, calls[c], taxPayerId)]
  /\ UNCHANGED <<ctor, proj, client>>

QueryTaxPayerReturn(c) ==
  /\ Awaiting(c, "queryTaxPayer")
  /\ \E httpResponse \in Responses(calls[c].fileFieldName) :
       calls' = [calls EXCEPT ![c] = queryTaxPayerReturn(client, calls[c], httpResponse)]
  /\ UNCHANGED <<ctor, proj, client>>

RegisterCreditEntry(c) ==
  /\ Idle(c)
  /\ \E options \in RegisterCreditEntryInputs :
       calls' = [calls EXCEPT ![c] = registerCreditEntryCall(client, calls[c], options)]
  /\ UNCHANGED <<ctor, proj, client>>

RegisterCreditEntryReturn(c) ==
  /\ Awaiting(c, "registerCreditEntry")
  /\ \E httpResponse \in Responses(calls[c].fileFieldName) :
       calls' = [calls EXCEPT ![c] = registerCreditEntryReturn(client, calls[c], httpResponse)]
  /\ UNCHANGED <<ctor, proj, client>>

SetRequestInvoiceDownload ==
  /\ \E value \in {Bool(FALSE), Bool(TRUE)} :
       client' = setRequestInvoiceDownload(client, value)
  /\ UNCHANGED <<ctor, proj, calls>>

\* -------------------------------------------------------- specifications
\* one call at a time on a constructed client, of any method, with the
\* download option set at any moment
Init ==
  /\ ctor = NoCtor
  /\ proj = NoProj
  /\ client \in Clients
  /\ calls = [c \in CallIds |-> IdleCall]

Next ==
  \/ GetInvoiceData(1)
  \/ GetInvoiceDataReturn(1)
  \/ ReverseInvoice(1)
  \/ ReverseInvoiceReturn(1)
  \/ IssueInvoice(1)
  \/ IssueInvoiceReturn(1, Responses("action-xmlagentxmlfile"))
  \/ QueryTaxPayer(1)
  \/ QueryTaxPayerReturn(1)
  \/ RegisterCreditEntry(1)
  \/ RegisterCreditEntryReturn(1)
  \/ SetRequestInvoiceDownload

Spec == Init /\ [][Next]_vars

\* issueInvoice calls in flight together, the download option set between
\* their steps; the service answers with a PDF (raw or wrapped), with a
\* document without one, or with an error
IssueResponses ==
  {Response(500, Headers(Undefined, Undefined, Undefined), MalformedBody),
   Response(200, Headers(Str(Code57), Str(ErrorText), Undefined), EmptyBody)}
  \cup {Response(200, Headers(Undefined, Undefined, Str(<<"E", "1">>)), b) :
          b \in {BytesBody(<<37, 80>>),
                 XmlBody(Doc(PdfLeaves(<<<<"Q", "/">>>>))),
                 XmlBody(Doc({<<<<"xmlszamlavalasz", "sikeres", "0">>, TrueS>>}))}}

NextIssue ==
  \/ \E c \in CallIds : IssueInvoice(c)
  \/ \E c \in CallIds : IssueInvoiceReturn(c, IssueResponses)
  \/ SetRequestInvoiceDownload

SpecIssue == Init /\ [][NextIssue]_vars

\* the constructor on every combination of credential options
CtorOptions == [authToken : FieldInputs, user : FieldInputs, password : FieldInputs]

InitCtor ==
  /\ ctor \in {[NoCtor EXCEPT !.options = o] : o \in CtorOptions}
  /\ proj = NoProj
  /\ client = NoClient
  /\ calls = [c \in CallIds |-> IdleCall]

SpecCtor == InitCtor /\ [][Construct]_vars

\* xml2obj on every document of MaxDepth levels over two tags and every
\* dotted path of up to MaxDepth segments
ProjTags == {"a", "b"}

\* the shapes of an element with up to d levels below it, as the addresses
\* of its leaves relative to it
RECURSIVE NodeShapes(_)
NodeShapes(d) ==
  IF d = 0 THEN {{<<>>}}
  ELSE LET sub == NodeShapes(d - 1)
           children == SeqsUpTo(sub, MaxOcc)
       IN sub \cup
          {UNION {{<<ti[1], IndexKey[ti[2]]>> \o a : a \in f[ti[1]][ti[2]]} :
                    ti \in {x \in ProjTags \X (1..MaxOcc) : x[2] <= Len(f[x[1]])}} :
             f \in {g \in [ProjTags -> children] : \E t \in ProjTags : g[t] # <<>>}}

\* every leaf holds a text of its own: its address
ProjDocs ==
  {[a \in {<<root>> \o x : x \in shape} |-> a] :
     root \in ProjTags, shape \in NodeShapes(MaxDepth - 1)}

ProjPaths == SeqsUpTo(ProjTags, MaxDepth) \ {<<>>}

InitProj ==
  /\ ctor = NoCtor
  /\ proj \in {[NoProj EXCEPT !.body = b, !.objList = <<[path |-> path, key |-> "out"]>>] :
                 b \in {MalformedBody, EmptyBody} \cup {XmlBody(d) : d \in ProjDocs},
                 path \in ProjPaths}
  /\ client = NoClient
  /\ calls = [c \in CallIds |-> IdleCall]

SpecProj == InitProj /\ [][Project]_vars


\* ---------------------------------------------------------------- claims
Done(call) == call.pc = "done"

HasPdf(call) == "pdf" \in DOMAIN call.result

\* the response was decoded: it came, with status 200 and no error header
ReachedDecode(call) ==
  /\ Done(call)
  /\ call.sends > 0
  /\ call.response.status = 200
  /\ call.response.headers.szlahu_error_code.t = "undefined"

HasErrorNode(doc) ==
  \E a \in DOMAIN doc : IsPrefix(<<"xmlszamlavalasz", "hibakod">>, a)

\* the checks each method makes on its arguments
ChecksPass(op, input) ==
  CASE op = "getInvoiceData" ->
         IsValidString(input.invoiceId) \/ IsValidString(input.orderNumber)
    [] op = "reverseInvoice" ->
         /\ IsValidString(input.invoiceId)
         /\ input.eInvoice # Undefined
         /\ input.requestInvoiceDownload # Undefined
    [] op = "queryTaxPayer" ->
         /\ input.taxPayerId.t = "number"
         /\ 10000000 <= input.taxPayerId.n
         /\ input.taxPayerId.n <= 99999999
    [] op = "registerCreditEntry" ->
         /\ IsValidString(input.invoiceId)
         /\ input.creditEntries.isArray
         /\ input.creditEntries.items # <<>>
         /\ \A i \in 1..Len(input.creditEntries.items) : input.creditEntries.items[i] = "CreditEntry"
    [] OTHER -> TRUE

\* C1: a call of getInvoiceData, reverseInvoice, queryTaxPayer or
\* registerCreditEntry whose arguments fail a check ends in a validation
\* failure without any POST, and a call that made a POST passed all checks
C1_ValidationBeforeSend ==
  \A c \in CallIds :
    LET call == calls[c]
    IN call.op \in {"getInvoiceData", "reverseInvoice", "queryTaxPayer", "registerCreditEntry"} =>
         /\ ~ChecksPass(call.op, call.input) =>
              Done(call) /\ call.outcome = "ValidationError" /\ call.sends = 0
         /\ call.outcome = "ValidationError" => call.sends = 0 /\ call.response = NoResponse
         /\ call.sends > 0 => ChecksPass(call.op, call.input)

C1_Witness ==
  \E c \in CallIds :
    /\ calls[c].op = "reverseInvoice"
    /\ IsValidString(calls[c].input.invoiceId)
    /\ calls[c].input.eInvoice # Undefined
    /\ calls[c].input.requestInvoiceDownload = Undefined
    /\ calls[c].outcome = "ValidationError"
    /\ calls[c].sends = 0

BinaryExpected(call) ==
  \/ call.op = "reverseInvoice"
  \/ call.op = "issueInvoice"
     /\ RequestField(call.request, "beallitasok", "valaszVerzio") = Str(<<"1">>)

\* C3: when a response is decoded, its body is given to the XML parser
\* exactly when the call neither expects a binary answer nor is
\* registerCreditEntry; a parsed document with an error node fails the call
\* with that node's code and message, and one without reaches the method's
\* own decoding
C3_ParsedUnlessBinaryOrCredit ==
  \A c \in CallIds :
    LET call == calls[c]
        doc == call.response.data.doc
    IN ReachedDecode(call) =>
         /\ call.parsed <=> ~(BinaryExpected(call) \/ call.op = "registerCreditEntry")
         /\ call.parsed /\ call.response.data.kind = "xml" =>
              IF HasErrorNode(doc)
                THEN /\ call.outcome = "ServiceError"
                     /\ call.error.code = Str(doc[<<"xmlszamlavalasz", "hibakod", "0">>])
                     /\ (/\ <<"xmlszamlavalasz", "hibauzenet", "0">> \in DOMAIN doc
                         /\ <<"xmlszamlavalasz", "hibauzenet", "1">> \notin DOMAIN doc
                         => call.error.message = Str(doc[<<"xmlszamlavalasz", "hibauzenet", "0">>]))
                ELSE /\ call.outcome \in {"success", "TypeError"}
                     /\ call.op = "getInvoiceData" => call.outcome = "success"
         /\ ~call.parsed => call.outcome = "success"

C3_Witness ==
  \E c \in CallIds :
    /\ calls[c].op = "registerCreditEntry"
    /\ ReachedDecode(calls[c])
    /\ HasErrorNode(calls[c].response.data.doc)
    /\ ~calls[c].parsed
    /\ calls[c].outcome = "success"

\* C4: getInvoiceData passes its validation exactly when invoiceId or
\* orderNumber is a string that is non-empty after trimming
C4_NonEmptyIdSuffices ==
  \A c \in CallIds :
    LET call == calls[c]
    IN call.op = "getInvoiceData" =>
         (call.outcome = "ValidationError"
            <=> ~(NonEmptyTrimmed(call.input.invoiceId) \/ NonEmptyTrimmed(call.input.orderNumber)))

\* C5: construction succeeds exactly when one credential mode, and not the
\* other, is given with non-empty values: the token, or the user and password
C5_ExactlyOneCredentialMode ==
  LET o == ctor.options
      token == NonEmptyTrimmed(o.authToken)
      pair == NonEmptyTrimmed(o.user) /\ NonEmptyTrimmed(o.password)
  IN ctor.done => (ctor.result.ok <=> (token /\ ~pair) \/ (pair /\ ~token))

PdfAddress == <<"xmlszamlavalasz", "pdf", "0">>

\* issueInvoice asked for a download with response version 2, the download
\* option still set when the response is decoded, and the transport passed
\* the response on: status 200, no error header, a document without error node
DecodesWrappedPdf(call) ==
  /\ call.op = "issueInvoice"
  /\ RequestField(call.request, "beallitasok", "valaszVerzio") = Str(<<"2">>)
  /\ RequestField(call.request, "beallitasok", "szamlaLetoltes") = Str(TrueS)
  /\ call.download
  /\ ReachedDecode(call)
  /\ call.response.data.kind = "xml"
  /\ ~HasErrorNode(call.response.data.doc)

\* C6: issueInvoice with response version 2 and the download requested
\* returns as pdf the base64 decoding of the text of the first pdf element of
\* the response (an empty text gives an empty PDF, the text Q/ the byte 67),
\* and fails, returning nothing, when the response has no such element
C6_WrappedPdfOrFailure ==
  \A c \in CallIds :
    LET call == calls[c]
        doc == call.response.data.doc
    IN DecodesWrappedPdf(call) =>
         IF PdfAddress \in DOMAIN doc
           THEN /\ call.outcome = "success"
                /\ HasPdf(call)
                /\ call.result.pdf = Buffer(BytesBody(Base64Decode(doc[PdfAddress])))
                /\ doc[PdfAddress] = <<>> => call.result.pdf = Buffer(BytesBody(<<>>))
                /\ doc[PdfAddress] = <<"Q", "/">> => call.result.pdf = Buffer(BytesBody(<<67>>))
           ELSE /\ call.outcome \notin {"success", "none"}
                /\ call.result = <<>>

C6_Witness ==
  \E c \in CallIds :
    /\ DecodesWrappedPdf(calls[c])
    /\ ~HasOwnProperty(calls[c].response.data.doc, <<"xmlszamlavalasz">>, "pdf")
    /\ calls[c].outcome = "TypeError"

\* C7: the request of registerCreditEntry carries the caller's additive
\* value, true when the caller gives none, and the caller's taxNumber, the
\* empty string when the caller gives none
C7_AdditiveAsGiven ==
  \A c \in CallIds :
    LET call == calls[c]
    IN call.op = "registerCreditEntry" /\ call.sends > 0 =>
         /\ RequestField(call.request, "beallitasok", "additiv")
              = IF call.input.additive = Undefined THEN Str(TrueS)
                ELSE Str(ToStr(call.input.additive))
         /\ RequestField(call.request, "beallitasok", "adoszam")
              = IF call.input.taxNumber = Undefined THEN Str(<<>>) ELSE call.input.taxNumber

\* the text of the taxpayer leaf at the given place of the answer, under its
\* plain or its qualified names; undefined when the answer has none
TaxLeaf(doc, names) ==
  IF TaxAddress(FALSE, names) \in DOMAIN doc THEN Str(doc[TaxAddress(FALSE, names)])
  ELSE IF TaxAddress(TRUE, names) \in DOMAIN doc THEN Str(doc[TaxAddress(TRUE, names)])
  ELSE Undefined

\* the leaf as a result field: null when it is missing or empty
TaxField(doc, names) == IF Truthy(TaxLeaf(doc, names)) THEN TaxLeaf(doc, names) ELSE Null

\* the answer has an address item below its first address list
HasAddressItem(doc) ==
  \E a \in DOMAIN doc : \E prefixed \in BOOLEAN :
    IsPrefix(TaxAddress(prefixed, <<"taxpayerData", "0", "taxpayerAddressList", "0",
                                    "taxpayerAddressItem">>), a)

\* C8: the result of queryTaxPayer is exactly {taxpayerValidity: false}
\* unless the first taxpayerValidity leaf of the answer is the text true; it
\* then has the taxpayer's id, VAT code, county code, name and short name
\* from the answer, and a null address when the answer has no address item;
\* a decoded answer with a QueryTaxpayerResponse root raises no error
C8_TaxPayerDecode ==
  \A c \in CallIds :
    LET call == calls[c]
        doc == call.response.data.doc
    IN /\ call.op = "queryTaxPayer"
       /\ ReachedDecode(call)
       /\ call.response.data.kind = "xml"
       /\ ~HasErrorNode(doc)
       /\ \E a \in DOMAIN doc : a[1] = "QueryTaxpayerResponse"
       => /\ call.outcome = "success"
          /\ IF TaxLeaf(doc, <<"taxpayerValidity", "0">>) # Str(TrueS)
               THEN call.result = [k \in {"taxpayerValidity"} |-> Bool(FALSE)]
               ELSE /\ call.result.taxpayerValidity = Bool(TRUE)
                    /\ call.result.taxpayerId
                         = TaxField(doc, <<"taxpayerData", "0", "taxNumberDetail", "0", "taxpayerId", "0">>)
                    /\ call.result.vatCode
                         = TaxField(doc, <<"taxpayerData", "0", "taxNumberDetail", "0", "vatCode", "0">>)
                    /\ call.result.countyCode
                         = TaxField(doc, <<"taxpayerData", "0", "taxNumberDetail", "0", "countyCode", "0">>)
                    /\ call.result.taxpayerName
                         = TaxField(doc, <<"taxpayerData", "0", "taxpayerName", "0">>)
                    /\ call.result.taxpayerShortName
                         = TaxField(doc, <<"taxpayerData", "0", "taxpayerShortName", "0">>)
                    /\ ~HasAddressItem(doc) =>
                         /\ call.result.address = Null
                         /\ DOMAIN call.result
                              = {"taxpayerValidity", "taxpayerId", "vatCode", "countyCode",
                                 "taxpayerName", "taxpayerShortName", "address"}

C8_Witness ==
  \E c \in CallIds :
    /\ calls[c].op = "queryTaxPayer"
    /\ calls[c].outcome = "success"
    /\ TaxLeaf(calls[c].response.data.doc, <<"taxpayerValidity", "0">>) = Str(TrueS)
    /\ ~HasAddressItem(calls[c].response.data.doc)
    /\ calls[c].result.address = Null
    /\ calls[c].result.taxpayerName = Str(<<"N">>)
    /\ calls[c].result.taxpayerId = Str(<<"1", "2">>)

\* the place the walk of the specification reaches: the root element, then
\* for every further segment the first element of that tag's sequence
RECURSIVE FirstElements(_)
FirstElements(segments) ==
  IF segments = <<>> THEN <<>>
  ELSE <<Head(segments), "0">> \o FirstElements(Tail(segments))

ProjectedAddress(path) == <<Head(path)>> \o FirstElements(Tail(path))

\* C9: for a dotted path of two or more segments, xml2obj sets the output
\* key to what the walk over first elements reaches, and omits the key
\* exactly when a segment of the path is absent on that walk
C9_ProjectAnyDepth ==
  LET path == proj.objList[1].path
      doc == proj.body.doc
      hash == proj.result.hash
  IN proj.done /\ proj.result.ok /\ Len(path) >= 2 =>
       /\ "out" \in DOMAIN hash <=> TypeAt(doc, ProjectedAddress(path)) # "undefined"
       /\ "out" \in DOMAIN hash => hash.out = ValueAt(doc, ProjectedAddress(path))

\* C10: an issueInvoice call returns a pdf exactly when the request it sent
\* carried the download flag as true
C10_PdfIffRequested ==
  \A c \in CallIds :
    LET call == calls[c]
    IN call.op = "issueInvoice" /\ call.outcome = "success" =>
         (HasPdf(call)
            <=> RequestField(call.request, "beallitasok", "szamlaLetoltes") = Str(TrueS))


====
